---- MODULE Spec2Model ----
(***************************************************************************)
(* Model of app.py, the "Existing Lead Remover": one run of main() lists   *)
(* a user's CSV files, downloads them on a thread pool, and filters the    *)
(* uploaded leads against the downloaded ones, one dedupe key at a time.   *)
(*                                                                         *)
(* A DataFrame is a record [cols, rows]; a row is [idx, vals]: idx is the  *)
(* pandas index label of the row and vals maps each column of the frame to *)
(* its value.  All key columns are of one dtype, so Series.equals is       *)
(* equality of index labels and values.                                    *)
(***************************************************************************)
EXTENDS Integers, Sequences, FiniteSets, TLC

\* ---- bounds ----
MaxRows == 2
MaxFiles == 3
MaxHistory == 2

\* ---- program constants ----
max_workers == 20

\* ---- data ----
Columns == {"md5", "email"}
DEDUPE_KEYS == {"md5"}
Vals == {1, 2}

SeqsUpTo(S, n) == UNION {[1..k -> S] : k \in 0..n}

\* the value rows a CSV text with header `cols` can hold
RowVals(cols) == [cols -> Vals]

\* pd.read_csv: the rows in file order under a fresh RangeIndex 0..n-1
read_csv(cols, vs) ==
    [cols |-> cols, rows |-> [i \in 1..Len(vs) |-> [idx |-> i - 1, vals |-> vs[i]]]]

FramesOver(cols) == {read_csv(cols, vs) : vs \in SeqsUpTo(RowVals(cols), MaxRows)}

\* df[key]: the Series of (index label, value) pairs; KeyError when absent
HasColumn(df, key) == key \in df.cols
Column(df, key) == [i \in 1..Len(df.rows) |-> [idx |-> df.rows[i].idx, val |-> df.rows[i].vals[key]]]

\* a same-file test that compares the lengths of the key columns only
SameLength(df1, df2, dedupe_key) == Len(df1.rows) = Len(df2.rows)

\* Series.equals: same index labels and same values, position by position

_is_same_file(df1, df2, dedupe_key) == Column(df1, dedupe_key) = Column(df2, dedupe_key)

\* pd.concat(dfs, ignore_index=True)[key] as the set isin() tests against
ConcatValues(dfs, key) ==
    UNION {{dfs[j].rows[i].vals[key] : i \in 1..Len(dfs[j].rows)} : j \in 1..Len(dfs)}

\* new_df[~new_df[key].isin(seen)]: boolean indexing keeps the rows that pass,
\* their order and their index labels
NotIn(rows, key, seen) == SelectSeq(rows, LAMBDA r : r.vals[key] \notin seen)

Raised(e) == [st |-> e]
Returned(df) == [st |-> "ok", df |-> df]

ForeignOf(new_df, existing_dfs, dedupe_key) ==
    SelectSeq(existing_dfs, LAMBDA d : ~_is_same_file(new_df, d, dedupe_key))

\* a filter without self-exclusion
remove_duplicates_no_exclusion(new_df, existing_dfs, dedupe_key) ==
    IF existing_dfs = <<>> THEN Raised("ValueError")
    ELSE IF ~HasColumn(new_df, dedupe_key) THEN Raised("KeyError")
    ELSE IF \E j \in 1..Len(existing_dfs) : ~HasColumn(existing_dfs[j], dedupe_key)
         THEN Raised("KeyError")
    ELSE LET seen == ConcatValues(existing_dfs, dedupe_key)
         IN  Returned([cols |-> new_df.cols,
                       rows |-> NotIn(new_df.rows, dedupe_key, seen)])

\* a filter that lets a batch without the key column through unchanged
remove_duplicates_skip_missing(new_df, existing_dfs, dedupe_key) ==
    IF existing_dfs = <<>> THEN Raised("ValueError")
    ELSE IF ~HasColumn(new_df, dedupe_key) THEN Returned(new_df)
    ELSE IF \E j \in 1..Len(existing_dfs) : ~HasColumn(existing_dfs[j], dedupe_key)
         THEN Raised("KeyError")
    ELSE LET foreign == ForeignOf(new_df, existing_dfs, dedupe_key)
             seen == ConcatValues(foreign, dedupe_key)
         IN  IF foreign = <<>> THEN Raised("ValueError")
             ELSE Returned([cols |-> new_df.cols,
                            rows |-> NotIn(new_df.rows, dedupe_key, seen)])

\* remove_duplicates: the list comprehension reads new_df[key] and df[key]
\* for every existing df (KeyError when absent) and is skipped for an empty
\* list; pd.concat of an empty list raises ValueError.
remove_duplicates(new_df, existing_dfs, dedupe_key) ==
    IF existing_dfs = <<>> THEN Raised("ValueError")
    ELSE IF ~HasColumn(new_df, dedupe_key) THEN Raised("KeyError")
    ELSE IF \E j \in 1..Len(existing_dfs) : ~HasColumn(existing_dfs[j], dedupe_key)
         THEN Raised("KeyError")
    ELSE LET foreign == ForeignOf(new_df, existing_dfs, dedupe_key)
             seen == ConcatValues(foreign, dedupe_key)
         IN  IF foreign = <<>> THEN Raised("ValueError")
             ELSE Returned([cols |-> new_df.cols,
                            rows |-> NotIn(new_df.rows, dedupe_key, seen)])

\* ---- one run of main() ----
VARIABLES
    pc,           \* position of the control thread (the Streamlit script run)
    df,           \* the uploaded leads, pd.read_csv(uploaded_file)
    upload_name,  \* uploaded_file.name
    response,     \* the listing response: its status and its "ls" entries
    user_csvs,    \* what _list_user_csvs returned
    fut,          \* state of each future submitted by executor.map
    fetched,      \* what each finished _download_csv returned
    results,      \* the list being built by list(executor.map(...))
    existing_dfs, \* the value download_user_csvs returned to main
    keys_left,    \* the dedupe keys the for loop has not visited yet
    passes,       \* number of remove_duplicates calls made by the loop
    cleaned_df,   \* main's cleaned_df
    error,        \* the exception that ended the run, or "none"
    h_pc,         \* position of the direct caller of remove_duplicates
    h_keys,       \* the dedupe keys it passes, in order
    h_new,        \* its new_df
    h_existing,   \* its existing_dfs
    h_out1,       \* first result
    h_out2        \* second result

run_vars == <<pc, df, upload_name, response, user_csvs, fut, fetched, results, existing_dfs,
              keys_left, passes, cleaned_df, error>>
h_vars == <<h_pc, h_keys, h_new, h_existing, h_out1, h_out2>>
vars == <<run_vars, h_vars>>

None == [cols |-> {}, rows |-> <<>>]

\* a filename is <<stem, extension>>; the remote directory in listing order
Directory ==
    << <<"leads", "csv">>, <<"march", "csv">>, <<"notes", "txt">>, <<"april", "csv">>, <<"may", "csv">> >>

\* f["filename"].endswith(".csv")
IsCsv(filename) == filename[2] = "csv"

\* what the remote service can list: entries of the directory, in order
Listings ==
    {[i \in 1..Len(ix) |-> Directory[ix[i]]] :
        ix \in {s \in SeqsUpTo(1..Len(Directory), MaxFiles) :
                    \A i \in 1..Len(s) - 1 : s[i] < s[i + 1]}}

KeyOnly(v) == [c \in {"md5"} |-> v]
MailOnly(v) == [c \in {"email"} |-> v]

\* the uploads and the remote file contents of the runs explored
RunUploads ==
    { read_csv({"md5"}, <<KeyOnly(1), KeyOnly(2)>>),
      read_csv({"md5"}, <<KeyOnly(2)>>),
      read_csv({"email"}, <<MailOnly(1)>>) }
RemoteFrames ==
    { read_csv({"md5"}, <<>>),
      read_csv({"md5"}, <<KeyOnly(1), KeyOnly(2)>>),
      read_csv({"md5"}, <<KeyOnly(1)>>),
      read_csv({"md5"}, <<KeyOnly(2)>>),
      read_csv({"email"}, <<MailOnly(1)>>) }

HarnessOff ==
    /\ h_pc = "off" /\ h_keys = <<>> /\ h_new = None /\ h_existing = <<>>
    /\ h_out1 = Raised("none") /\ h_out2 = Raised("none")

RunInit ==
    /\ pc = "Idle"
    /\ df \in RunUploads
    /\ upload_name \in {Directory[1], <<"fresh", "csv">>}
    /\ response = [status |-> "none", ls |-> <<>>]
    /\ user_csvs = <<>>
    /\ fut = <<>>
    /\ fetched = <<>>
    /\ results = <<>>
    /\ existing_dfs = <<>>
    /\ keys_left = {}
    /\ passes = 0
    /\ cleaned_df = None
    /\ error = "none"
    /\ HarnessOff

\* _list_user_csvs keeps the .csv entries of the listing
CsvOnly(files) == SelectSeq(files, IsCsv)

\* a loader that skips the entry named like the upload
DownloadInputsSkippingUpload(files) == SelectSeq(files, LAMBDA f : IsCsv(f) /\ f # upload_name)

\* download_inputs of download_user_csvs: one path per listed CSV; a path is
\* the user's directory plus the filename, so the filename stands for it
DownloadInputs(files) == CsvOnly(files)

\* a listing failure swallowed into "no files"
ListFailsAsEmpty ==
    /\ pc = "Idle"
    /\ response' = [status |-> "failed", ls |-> <<>>]
    /\ pc' = "Mapping"
    /\ UNCHANGED <<df, upload_name, user_csvs, fut, fetched, results, existing_dfs,
                   keys_left, passes, cleaned_df, error, h_vars>>

\* main calls download_user_csvs; raise_for_status fails the listing and the
\* exception leaves download_user_csvs and main
ListFails ==
    /\ pc = "Idle"
    /\ response' = [status |-> "failed", ls |-> <<>>]
    /\ pc' = "Failed"
    /\ error' = "HTTPError:list"
    /\ UNCHANGED <<df, upload_name, user_csvs, fut, fetched, results, existing_dfs,
                   keys_left, passes, cleaned_df, h_vars>>

\* the listing succeeds; executor.map submits one future per download input
ListOk ==
    /\ pc = "Idle"
    /\ \E files \in Listings :
          /\ response' = [status |-> "ok", ls |-> files]
          /\ user_csvs' = DownloadInputs(files)
          /\ fut' = [i \in 1..Len(DownloadInputs(files)) |-> "pending"]
          /\ fetched' = [i \in 1..Len(DownloadInputs(files)) |-> None]
    /\ pc' = "Mapping"
    /\ UNCHANGED <<df, upload_name, results, existing_dfs, keys_left, passes,
                   cleaned_df, error, h_vars>>

Running == {i \in DOMAIN fut : fut[i] = "running"}

\* a pool thread takes the oldest queued work item
WorkerStart(i) ==
    /\ pc \in {"Mapping", "Joining"}
    /\ fut[i] = "pending"
    /\ \A j \in 1..(i - 1) : fut[j] # "pending"
    /\ Cardinality(Running) < max_workers
    /\ fut' = [fut EXCEPT ![i] = "running"]
    /\ UNCHANGED <<pc, df, upload_name, response, user_csvs, fetched, results, existing_dfs,
                   keys_left, passes, cleaned_df, error, h_vars>>

\* _download_csv returns the parsed file
WorkerOk(i) ==
    /\ fut[i] = "running"
    /\ \E content \in RemoteFrames : fetched' = [fetched EXCEPT ![i] = content]
    /\ fut' = [fut EXCEPT ![i] = "done"]
    /\ UNCHANGED <<pc, df, upload_name, response, user_csvs, results, existing_dfs,
                   keys_left, passes, cleaned_df, error, h_vars>>

\* _download_csv raises (non-200 response, or unparseable text)
WorkerFail(i) ==
    /\ fut[i] = "running"
    /\ fut' = [fut EXCEPT ![i] = "failed"]
    /\ UNCHANGED <<pc, df, upload_name, response, user_csvs, fetched, results, existing_dfs,
                   keys_left, passes, cleaned_df, error, h_vars>>

\* list(...) takes the next result, in submission order
Collect ==
    /\ pc = "Mapping"
    /\ Len(results) < Len(fut)
    /\ fut[Len(results) + 1] = "done"
    /\ results' = Append(results, fetched[Len(results) + 1])
    /\ UNCHANGED <<pc, df, upload_name, response, user_csvs, fut, fetched, existing_dfs,
                   keys_left, passes, cleaned_df, error, h_vars>>

\* a loader that swallows a failed download into an empty frame
CollectSwallowsFailure ==
    /\ pc = "Mapping"
    /\ Len(results) < Len(fut)
    /\ fut[Len(results) + 1] = "failed"
    /\ results' = Append(results, None)
    /\ UNCHANGED <<pc, df, upload_name, response, user_csvs, fut, fetched, existing_dfs,
                   keys_left, passes, cleaned_df, error, h_vars>>

\* the next result is an exception: the map generator cancels the futures
\* still queued and the exception leaves the with block
CollectRaises ==
    /\ pc = "Mapping"
    /\ Len(results) < Len(fut)
    /\ fut[Len(results) + 1] = "failed"
    /\ fut' = [i \in DOMAIN fut |-> IF fut[i] = "pending" THEN "cancelled" ELSE fut[i]]
    /\ error' = "HTTPError:download"
    /\ pc' = "Joining"
    /\ UNCHANGED <<df, upload_name, response, user_csvs, fetched, results, existing_dfs,
                   keys_left, passes, cleaned_df, h_vars>>

\* the list is complete and control reaches the end of the with block
MapComplete ==
    /\ pc = "Mapping"
    /\ Len(results) = Len(fut)
    /\ pc' = "Joining"
    /\ UNCHANGED <<df, upload_name, response, user_csvs, fut, fetched, results, existing_dfs,
                   keys_left, passes, cleaned_df, error, h_vars>>

\* shutdown(wait=False): control leaves without waiting for the pool
JoinNoWait ==
    /\ pc = "Joining"
    /\ IF error = "none"
       THEN /\ existing_dfs' = results
            /\ pc' = "Loaded"
       ELSE /\ pc' = "Failed"
            /\ UNCHANGED existing_dfs
    /\ UNCHANGED <<df, upload_name, response, user_csvs, fut, fetched, results,
                   keys_left, passes, cleaned_df, error, h_vars>>

\* executor.__exit__: shutdown(wait=True) returns once no thread is working
Join ==
    /\ pc = "Joining"
    /\ \A i \in DOMAIN fut : fut[i] \notin {"pending", "running"}
    /\ IF error = "none"
       THEN /\ existing_dfs' = results
            /\ pc' = "Loaded"
       ELSE /\ pc' = "Failed"
            /\ UNCHANGED existing_dfs
    /\ UNCHANGED <<df, upload_name, response, user_csvs, fut, fetched, results,
                   keys_left, passes, cleaned_df, error, h_vars>>

\* if not existing_dfs: cleaned_df = df; st.stop()
NoHistory ==
    /\ pc = "Loaded"
    /\ existing_dfs = <<>>
    /\ cleaned_df' = df
    /\ pc' = "NoHistory"
    /\ UNCHANGED <<df, upload_name, response, user_csvs, fut, fetched, results, existing_dfs,
                   keys_left, passes, error, h_vars>>

\* cleaned_df = df, and the for loop over DEDUPE_KEYS begins
StartFiltering ==
    /\ pc = "Loaded"
    /\ existing_dfs # <<>>
    /\ cleaned_df' = df
    /\ keys_left' = DEDUPE_KEYS
    /\ pc' = "Filtering"
    /\ UNCHANGED <<df, upload_name, response, user_csvs, fut, fetched, results, existing_dfs,
                   passes, error, h_vars>>

\* one iteration: cleaned_df = remove_duplicates(cleaned_df, existing_dfs, key)
FilterPass ==
    /\ pc = "Filtering"
    /\ \E dedupe_key \in keys_left :
          LET r == remove_duplicates(cleaned_df, existing_dfs, dedupe_key)
          IN  /\ keys_left' = keys_left \ {dedupe_key}
              /\ passes' = passes + 1
              /\ IF r.st = "ok"
                 THEN /\ cleaned_df' = r.df
                      /\ UNCHANGED <<pc, error>>
                 ELSE /\ error' = r.st
                      /\ pc' = "Failed"
                      /\ UNCHANGED cleaned_df
    /\ UNCHANGED <<df, upload_name, response, user_csvs, fut, fetched, results, existing_dfs, h_vars>>

\* the loop is exhausted: the cleaned leads are shown and offered for download
Finish ==
    /\ pc = "Filtering"
    /\ keys_left = {}
    /\ pc' = "Done"
    /\ UNCHANGED <<df, upload_name, response, user_csvs, fut, fetched, results, existing_dfs,
                   keys_left, passes, cleaned_df, error, h_vars>>

Next ==
    \/ ListFails
    \/ ListOk
    \/ \E i \in 1..MaxFiles : i \in DOMAIN fut /\ WorkerStart(i)
    \/ \E i \in 1..MaxFiles : i \in DOMAIN fut /\ WorkerOk(i)
    \/ \E i \in 1..MaxFiles : i \in DOMAIN fut /\ WorkerFail(i)
    \/ Collect
    \/ CollectRaises
    \/ MapComplete
    \/ Join
    \/ NoHistory
    \/ StartFiltering
    \/ FilterPass
    \/ Finish

Spec == RunInit /\ [][Next]_vars

\* ---- remove_duplicates called directly ----
RunOff ==
    /\ pc = "Off" /\ df = None /\ upload_name = <<>>
    /\ response = [status |-> "none", ls |-> <<>>]
    /\ user_csvs = <<>> /\ fut = <<>> /\ fetched = <<>> /\ results = <<>>
    /\ existing_dfs = <<>> /\ keys_left = {} /\ passes = 0
    /\ cleaned_df = None /\ error = "none"

\* batches: both columns, or the key column missing
FilterBatches == FramesOver(Columns) \cup FramesOver({"email"})
\* historical frames: the key column alone, or one file without it
FilterHistory == FramesOver({"md5"}) \cup {read_csv({"email"}, <<MailOnly(1)>>)}

FilterInit ==
    /\ RunOff
    /\ h_pc = "ready"
    /\ h_keys = <<"md5">>
    /\ h_new \in FilterBatches
    /\ h_existing \in SeqsUpTo(FilterHistory, MaxHistory)
    /\ h_out1 = Raised("none")
    /\ h_out2 = Raised("none")

\* remove_duplicates(new_df, existing_dfs, key)
CallOnce ==
    /\ h_pc = "ready"
    /\ h_out1' = remove_duplicates(h_new, h_existing, h_keys[1])
    /\ h_pc' = "once"
    /\ UNCHANGED <<run_vars, h_keys, h_new, h_existing, h_out2>>

\* remove_duplicates applied to its own output
CallAgain ==
    /\ h_pc = "once"
    /\ h_out1.st = "ok"
    /\ h_out2' = remove_duplicates(h_out1.df, h_existing, h_keys[1])
    /\ h_pc' = "twice"
    /\ UNCHANGED <<run_vars, h_keys, h_new, h_existing, h_out1>>

FilterNext == CallOnce \/ CallAgain

SpecFilter == FilterInit /\ [][FilterNext]_vars

\* ---- the per-key loop of main with two configured keys ----
KeysInit ==
    /\ RunOff
    /\ h_pc = "ready"
    /\ h_keys = <<"md5", "email">>
    /\ h_new \in FramesOver(Columns)
    /\ h_existing \in SeqsUpTo(FramesOver(Columns), MaxHistory) \ {<<>>}
    /\ h_out1 = Raised("none")
    /\ h_out2 = Raised("none")

\* cleaned_df = remove_duplicates(cleaned_df, existing_dfs, dedupe_key); an
\* exception ends the loop
LoopStep(cleaned, dedupe_key) ==
    IF cleaned.st = "ok" THEN remove_duplicates(cleaned.df, h_existing, dedupe_key) ELSE cleaned

\* first iteration of the loop, under each of the two iteration orders
LoopFirst ==
    /\ h_pc = "ready"
    /\ h_out1' = LoopStep(Returned(h_new), h_keys[1])
    /\ h_out2' = LoopStep(Returned(h_new), h_keys[2])
    /\ h_pc' = "first"
    /\ UNCHANGED <<run_vars, h_keys, h_new, h_existing>>

\* second iteration
LoopSecond ==
    /\ h_pc = "first"
    /\ h_out1' = LoopStep(h_out1, h_keys[2])
    /\ h_out2' = LoopStep(h_out2, h_keys[1])
    /\ h_pc' = "second"
    /\ UNCHANGED <<run_vars, h_keys, h_new, h_existing>>

KeysNext == LoopFirst \/ LoopSecond

SpecKeys == KeysInit /\ [][KeysNext]_vars

\* ---- properties ----
Terminal == pc \in {"Failed", "Done", "NoHistory"}
AllFetched == \A i \in DOMAIN fut : fut[i] = "done"
SomeFetchFailed == \E i \in DOMAIN fut : fut[i] = "failed"
SomeFetchDone == \E i \in DOMAIN fut : fut[i] = "done"
KeyValues(frame, key) == {frame.rows[i].vals[key] : i \in 1..Len(frame.rows)}
IsForeign(batch, frame, key) ==
    \/ Len(batch.rows) # Len(frame.rows)
    \/ \E i \in 1..Len(batch.rows) :
          \/ batch.rows[i].idx # frame.rows[i].idx
          \/ batch.rows[i].vals[key] # frame.rows[i].vals[key]
\* the rows of batch whose key value occurs in none of the frames
SurvivorsOfAll(batch, frames, key) ==
    SelectSeq(batch.rows,
              LAMBDA r : ~\E j \in 1..Len(frames) : r.vals[key] \in KeyValues(frames[j], key))
\* the rows of batch whose key value occurs in none of the foreign frames
SurvivorsOfForeign(batch, frames, key) ==
    SelectSeq(batch.rows,
              LAMBDA r : ~\E j \in 1..Len(frames) :
                             /\ IsForeign(batch, frames[j], key)
                             /\ r.vals[key] \in KeyValues(frames[j], key))

\* C1 as claimed: when some downloads fail and others succeed, the failed
\* download does not end the run.
C1_Original ==
    (Terminal /\ SomeFetchFailed /\ SomeFetchDone) => error # "HTTPError:download"

\* C1: a failed download ends the whole run: the run fails with the download's
\* error, no history is returned, no filter pass runs and nothing is cleaned;
\* history reaches main only when every listed CSV was downloaded, and then
\* it holds every download in listing order.
C1_AllOrNothing ==
    /\ (Terminal /\ SomeFetchFailed) =>
          /\ pc = "Failed"
          /\ error = "HTTPError:download"
          /\ existing_dfs = <<>>
          /\ passes = 0
          /\ cleaned_df = None
    /\ pc \in {"Loaded", "Filtering", "Done", "NoHistory"} =>
          /\ AllFetched
          /\ existing_dfs = fetched

C1_Witness ==
    /\ pc = "Failed"
    /\ error = "HTTPError:download"
    /\ SomeFetchFailed
    /\ SomeFetchDone

\* C2 as claimed: with a non-empty history in which the upload and every file
\* have the key column, the run completes and the cleaned batch is the upload
\* filtered against the files that are not sequence-equal to it (the whole
\* upload when every file is).
C2_Original ==
    (/\ Terminal
     /\ existing_dfs # <<>>
     /\ HasColumn(df, "md5")
     /\ \A j \in 1..Len(existing_dfs) : HasColumn(existing_dfs[j], "md5")) =>
        /\ pc = "Done"
        /\ cleaned_df.rows =
              SurvivorsOfForeign(df, existing_dfs, "md5")

\* C3 as claimed: remove_duplicates with an empty historical list returns the
\* batch unchanged and raises nothing.
C3_Original ==
    (h_pc # "ready" /\ h_existing = <<>>) => h_out1 = Returned(h_new)

\* C4: a failed listing ends the run in an error with nothing cleaned and no
\* filter pass; the NoHistory path is taken only after a listing that
\* succeeded without any CSV file, and it leaves the upload unchanged, runs no
\* filter pass and raises nothing.
C4_CatalogFailureDistinct ==
    /\ response.status = "failed" =>
          /\ pc = "Failed"
          /\ error = "HTTPError:list"
          /\ cleaned_df = None
          /\ passes = 0
    /\ pc = "NoHistory" =>
          /\ response.status = "ok"
          /\ \A k \in 1..Len(response.ls) : ~IsCsv(response.ls[k])
          /\ cleaned_df = df
          /\ passes = 0
          /\ error = "none"

C4_Witness ==
    /\ response.status = "failed"
    /\ pc = "Failed"

\* C5 as claimed: an upload without the key column makes every run whose
\* history loads fail with a missing-key error, also with zero files.
C5_Original ==
    (/\ Terminal
     /\ ~HasColumn(df, "md5")
     /\ response.status = "ok"
     /\ AllFetched) =>
        /\ pc = "Failed"
        /\ error = "KeyError"

\* C5: an upload without the key column fails the run with KeyError in the
\* first filter pass when at least one historical file was loaded; with zero
\* historical files the run takes the NoHistory path and keeps the upload.
C5_MissingKey ==
    (/\ Terminal
     /\ ~HasColumn(df, "md5")
     /\ response.status = "ok"
     /\ AllFetched) =>
        IF Len(fut) = 0
        THEN pc = "NoHistory" /\ error = "none" /\ cleaned_df = df /\ passes = 0
        ELSE pc = "Failed" /\ error = "KeyError" /\ passes = 1

C5_Witness ==
    /\ pc = "Failed"
    /\ error = "KeyError"
    /\ ~HasColumn(df, "md5")
    /\ existing_dfs # <<>>

FilterKeyed ==
    /\ h_pc # "ready"
    /\ HasColumn(h_new, h_keys[1])
    /\ \A j \in 1..Len(h_existing) : HasColumn(h_existing[j], h_keys[1])

\* C6 as claimed: what the filter returns is the batch rows whose key value
\* is in none of the historical record sets.
C6_Original ==
    (FilterKeyed /\ h_out1.st = "ok") =>
        h_out1.df.rows = SurvivorsOfAll(h_new, h_existing, h_keys[1])

C6_Result ==
    FilterKeyed =>
        IF \E j \in 1..Len(h_existing) : IsForeign(h_new, h_existing[j], h_keys[1])
        THEN /\ h_out1.st = "ok"
             /\ h_out1.df.cols = h_new.cols
             /\ h_out1.df.rows = SurvivorsOfForeign(h_new, h_existing, h_keys[1])
             /\ Len(h_out1.df.rows) <= Len(h_new.rows)
        ELSE h_out1 = Raised("ValueError")

\* C6: the filter returns, with all columns and in order, the batch rows
\* whose key value is in none of the historical record sets that are not
\* sequence-equal to the batch on the key; the result is never longer than
\* the batch and the batch itself is left as it was; when no such record set
\* exists it raises ValueError.
C6_KeyFilter == [](C6_Result) /\ [][h_new' = h_new]_vars

C6_Witness ==
    /\ FilterKeyed
    /\ \E j \in 1..Len(h_existing) : ~IsForeign(h_new, h_existing[j], h_keys[1])
    /\ h_out1.st = "ok"
    /\ Len(h_out1.df.rows) > 0
    /\ Len(h_out1.df.rows) < Len(h_new.rows)

RowSet(out) == {out.df.rows[i].vals : i \in 1..Len(out.df.rows)}

\* C7 as claimed: the loop over keys [A, B] leaves the same set of rows as
\* the loop over [B, A].
C7_Original ==
    (h_pc = "second" /\ h_out1.st = "ok" /\ h_out2.st = "ok") => RowSet(h_out1) = RowSet(h_out2)

C9_Original ==
    \A i \in DOMAIN fut : user_csvs[i] # upload_name

\* C9: every listed CSV file, the one named like the upload included, gets a
\* download, and every download reaches the history handed to the filter.
C9_EveryCsvFetched ==
    /\ response.status = "ok" =>
          /\ DOMAIN fut = DOMAIN user_csvs
          /\ \A k \in 1..Len(response.ls) :
                IsCsv(response.ls[k]) => \E i \in DOMAIN fut : user_csvs[i] = response.ls[k]
    /\ pc \in {"Filtering", "Done"} => existing_dfs = fetched

C9_Witness ==
    /\ pc = "Done"
    /\ \E i \in DOMAIN fut : user_csvs[i] = upload_name /\ existing_dfs[i] = fetched[i]

Left == pc \notin {"Idle", "Mapping", "Joining"}

\* C10 as claimed: control leaves download_user_csvs only when every
\* submitted download has completed or failed, and results are collected only
\* then.
C10_Original ==
    /\ Left => \A i \in DOMAIN fut : fut[i] \in {"done", "failed"}
    /\ results # <<>> => \A i \in DOMAIN fut : fut[i] \in {"done", "failed"}

\* C10: control leaves download_user_csvs only when every submitted download
\* has completed, failed or been cancelled before it started, so no filter
\* pass and no outcome exists while a download runs; each collected result
\* is the result of a completed download, taken in submission order.
C10_StructuredJoin ==
    /\ Left => \A i \in DOMAIN fut : fut[i] \in {"done", "failed", "cancelled"}
    /\ \A i \in 1..Len(results) : fut[i] = "done" /\ results[i] = fetched[i]

C10_Witness ==
    /\ pc = "Failed"
    /\ \E i \in DOMAIN fut : fut[i] = "cancelled"
    /\ \E i \in DOMAIN fut : fut[i] = "done"

====
